---- MODULE Spec2Model ----
(***************************************************************************)
(* Model of CommonLib/Environment.cpp (ASP.NET Core Module V2):            *)
(*   - Environment::CopyToDirectory / Environment::CopyDirTo, the shadow   *)
(*     copy of a directory tree, over an explicit file-system state;       *)
(*   - Environment::GetEnvironmentVariableValue, the probe/fill query of   *)
(*     an environment variable, over an explicit environment state.        *)
(* A path string is a sequence of one-character strings; a file-system     *)
(* path is the sequence of its components (each a sequence of characters). *)
(*                                                                         *)
(* The file system is the environment of the synchronizer:                 *)
(*   - CreateDirectory fails when the parent is missing or is a file, when *)
(*     the path exists, and when the path is too long (MaxDepth);          *)
(*   - CopyFile fails when the destination's parent is missing, when the   *)
(*     destination is a directory, and when the destination is in use;     *)
(*   - exists, remove_all, directory_iterator and last_write_time may      *)
(*     throw at any call; a throwing remove_all has removed nothing;       *)
(*   - a directory_iterator produces, in any order, the entries the        *)
(*     directory had when it was created, and may or may not produce an    *)
(*     entry added afterwards (std::filesystem leaves both unspecified).   *)
(***************************************************************************)
EXTENDS Integers, Sequences, FiniteSets, TLC

(* ------------------------------ bounds --------------------------------- *)
\* timestamps range over 1..MaxTime
MaxTime == 3
\* number of CopyToDirectory calls in one behaviour
MaxCalls == 2
\* deepest directory the file system accepts (its limit on the path length)
MaxDepth == 4
\* longest environment value (characters, without the terminator)
MaxLen == 2
\* number of external changes of the environment during one query
MaxChanges == 2
\* number of fill calls followed while the queried value stays the same
MaxFills == 5

(* --------------------------- strings and paths ------------------------- *)
npos == -1

\* does needle occur in hay at offset pos (0-based)
MatchAt(hay, needle, pos) ==
    /\ pos + Len(needle) <= Len(hay)
    /\ \A i \in 1..Len(needle) : hay[pos + i] = needle[i]

\* std::wstring::find(needle): the first offset of needle in hay, or npos
Find(hay, needle) ==
    IF \E p \in 0..Len(hay) : MatchAt(hay, needle, p)
    THEN CHOOSE p \in 0..Len(hay) :
            /\ MatchAt(hay, needle, p)
            /\ \A q \in 0..(p - 1) : ~MatchAt(hay, needle, q)
    ELSE npos

\* a guard that only refuses a destination equal to the source
GuardFiresOnEqual(destination, source) == destination = source

\* a guard that lets the empty source string pass
GuardFiresOnNonEmpty(destination, source) ==
    source # <<>> /\ Find(destination, source) = 0

\* the guard of CopyToDirectory: tempPath.find(source) == 0
GuardFires(destination, source) == Find(destination, source) = 0

\* std::filesystem::path built from a string: its components, separators
\* (also repeated or trailing ones) dropped
RECURSIVE SplitPath(_, _, _)
SplitPath(s, cur, acc) ==
    IF s = <<>>
    THEN (IF cur = <<>> THEN acc ELSE Append(acc, cur))
    ELSE IF Head(s) = "/"
         THEN SplitPath(Tail(s), <<>>, IF cur = <<>> THEN acc ELSE Append(acc, cur))
         ELSE SplitPath(Tail(s), Append(cur, Head(s)), acc)

ToPath(str) == SplitPath(str, <<>>, <<>>)

\* p is q or an ancestor of q
IsPrefix(p, q) == Len(p) <= Len(q) /\ SubSeq(q, 1, Len(p)) = p

Parent(p) == SubSeq(p, 1, Len(p) - 1)

\* operator/ of std::filesystem::path with a file name
Join(p, name) == Append(p, name)

\* path::filename()
Filename(p) == p[Len(p)]

(* ----------------------------- file system ----------------------------- *)
\* a file system is a function from the existing paths to their nodes;
\* the root <<>> always exists and is a directory
FileNode(c, t) == [kind |-> "file", content |-> c, time |-> t]
DirNode(t) == [kind |-> "dir", content |-> "", time |-> t]

Exists(f, p) == p = <<>> \/ p \in DOMAIN f
IsDir(f, p) == p = <<>> \/ (p \in DOMAIN f /\ f[p].kind = "dir")
IsFile(f, p) == p \in DOMAIN f /\ f[p].kind = "file"

\* the names directly under directory p
Entries(f, p) == {Filename(q) : q \in {r \in DOMAIN f : Len(r) = Len(p) + 1 /\ IsPrefix(p, r)}}

\* every path at or below p
Under(f, p) == {q \in DOMAIN f : IsPrefix(p, q)}

\* std::filesystem::remove_all(p)
RemoveAll(f, p) == [q \in (DOMAIN f \ Under(f, p)) |-> f[q]]

\* CreateDirectory(p) succeeds when the parent is a directory, p is new and
\* the path is not too long
CanCreateDirectory(f, p) ==
    p # <<>> /\ ~Exists(f, p) /\ IsDir(f, Parent(p)) /\ Len(p) <= MaxDepth

MkDir(f, p, t) == [q \in (DOMAIN f \cup {p}) |-> IF q = p THEN DirNode(t) ELSE f[q]]

\* CopyFile(s, d, FALSE) succeeds when s is a file, d is not a directory, its
\* parent is one, and d is not held open by a running process (lk: the
\* names of the files in use)
CanCopyFile(f, lk, s, d) ==
    /\ IsFile(f, s)
    /\ d # <<>>
    /\ ~IsDir(f, d)
    /\ IsDir(f, Parent(d))
    /\ Filename(d) \notin lk

\* CopyFile gives d the content and the last-write time of s
CopyFileTo(f, s, d) == [q \in (DOMAIN f \cup {d}) |-> IF q = d THEN f[s] ELSE f[q]]

(* ------------------------------- inputs -------------------------------- *)
nA == <<"a">>
nB == <<"b">>
nAB == <<"a", "b">>
nC == <<"c">>
nD == <<"d">>
nE == <<"e">>
nF == <<"f">>
nG == <<"g">>
nH == <<"h">>
nK == <<"k">>
nS == <<"s">>
nX == <<"x">>

\* the path strings the host passes
strEmpty == <<>>
strA == <<"/", "a">>
\* /a spelled with a trailing separator
strASlash == <<"/", "a", "/">>
strAB == <<"/", "a", "/", "b">>
strAb == <<"/", "a", "b">>
strC == <<"/", "c">>
strCD == <<"/", "c", "/", "d">>
\* /s spelled with a repeated separator
strS2 == <<"/", "/", "s">>
strSE == <<"/", "s", "/", "e">>

SourceStrs == {strEmpty, strA, strASlash, strAB, strS2}
DestStrs == {strA, strAB, strAb, strC, strCD, strSE}

\* the last-write time of the files of the application directory
BaseTime == MaxTime - 1

\* the application directories before any shadow copy:
\*   /a/f  /a/k  /a/b/g  /a/b/b/h   and   /s/e/ (a directory without files)
BaseTree ==
    (<<nA>> :> DirNode(1)) @@ (<<nA, nF>> :> FileNode("F", BaseTime)) @@
    (<<nA, nK>> :> FileNode("K", BaseTime)) @@
    (<<nA, nB>> :> DirNode(1)) @@ (<<nA, nB, nG>> :> FileNode("G", BaseTime)) @@
    (<<nA, nB, nB>> :> DirNode(1)) @@ (<<nA, nB, nB, nH>> :> FileNode("H", BaseTime)) @@
    (<<nS>> :> DirNode(1)) @@ (<<nS, nE>> :> DirNode(1))

\* what the destination directory may hold before the first call
PreloadItems ==
    {[what |-> "none", name |-> nX, time |-> 1], [what |-> "dir", name |-> nX, time |-> 1],
     [what |-> "subdir", name |-> nG, time |-> BaseTime]}
    \cup [what : {"file"}, name : {nF, nG, nH}, time : 1..MaxTime]

\* f with directory p and its missing ancestors added
RECURSIVE WithDirs(_, _)
WithDirs(f, p) ==
    IF p = <<>> \/ Exists(f, p) THEN f
    ELSE MkDir(WithDirs(f, Parent(p)), p, 1)

Preload(root, item) ==
    IF item.what = "none" THEN BaseTree
    ELSE IF item.what = "dir" THEN WithDirs(BaseTree, root)
    ELSE IF item.what = "subdir" /\ ~Exists(BaseTree, Join(root, item.name))
         THEN WithDirs(BaseTree, Join(root, item.name))
    ELSE IF item.what = "file" /\ ~IsDir(BaseTree, Join(root, item.name))
         THEN (Join(root, item.name) :> FileNode("old", item.time)) @@ WithDirs(BaseTree, root)
    ELSE BaseTree

\* the files a running process may hold open, by name
LockSets == {{}, {nF}, {nG}, {nH}}

InitialFileSystems(destination) == {Preload(ToPath(destination), item) : item \in PreloadItems}

(* -------------------------------- state -------------------------------- *)
VARIABLES
    host,      \* the host's configuration: the source and destination strings
    fs,        \* the file system
    locked,    \* the names of the files that are in use and cannot be written
    pc,        \* "idle": no call in progress; "enter": CopyDirTo entered;
               \* "iter": inside the loop of the innermost CopyDirTo
    stack,     \* the CopyDirTo activations: [from, to, todo, done]
    args,      \* the arguments of the current (or last) CopyToDirectory call
    result,    \* "none", "S_OK", "E_FAIL" or "threw" (an exception left the call)
    calls,     \* number of CopyToDirectory calls made
    fs0,       \* history: the file system when the current call started
    log,       \* history: what the current call decided for each file it visited
    prev,      \* history: the outcome of the call before the current one
    touched    \* history: source files modified since the last call returned

syncVars == <<host, fs, locked, pc, stack, args, result, calls, fs0, log, prev, touched>>

NoArgs == [dst |-> <<>>, src |-> <<>>, clean |-> FALSE]
NoPrev == [valid |-> FALSE, dst |-> <<>>, src |-> <<>>, result |-> "none",
           allOk |-> FALSE, touched |-> {}]

Top == stack[Len(stack)]
Frame(from, to) == [from |-> from, to |-> to, todo |-> {}, done |-> {}]
SetTop(st, fr) == [st EXCEPT ![Len(st)] = fr]
Pop(st) == SubSeq(st, 1, Len(st) - 1)

SyncInit ==
    /\ host \in [src : SourceStrs, dst : DestStrs]
    /\ fs \in InitialFileSystems(host.dst)
    /\ locked \in LockSets
    /\ pc = "idle"
    /\ stack = <<>>
    /\ args = NoArgs
    /\ result = "none"
    /\ calls = 0
    /\ fs0 = fs
    /\ log = {}
    /\ prev = NoPrev
    /\ touched = {}

(* ------------------------- the directory synchronizer ------------------ *)
Entry(p, d, act) ==
    [p |-> p, d |-> d, act |-> act,
     dExists |-> Exists(fs, d),
     srcT |-> IF IsFile(fs, p) THEN fs[p].time ELSE 0,
     dstT |-> IF d \in DOMAIN fs THEN fs[d].time ELSE 0]

\* an exception leaves CopyToDirectory: every CopyDirTo activation is unwound
Throw ==
    /\ result' = "threw"
    /\ pc' = "idle"
    /\ stack' = <<>>

\* a clean step that removes nothing
CleanStepSkipped(f, destination, cleanDest) == f

\* the clean step: the destination tree is removed when cleanDest is set and
\* the destination exists
CleanStep(f, destination, cleanDest) ==
    IF cleanDest /\ Exists(f, ToPath(destination))
    THEN RemoveAll(f, ToPath(destination))
    ELSE f

\* CopyToDirectory up to its call of CopyDirTo: the guard and the clean step.
\* The host runs the shadow copy on its configured pair of paths, and does
\* not run it again once an exception has left it.
CopyToDirectory(destination, source, cleanDest) ==
    /\ pc = "idle"
    /\ calls < MaxCalls
    /\ result # "threw"
    /\ calls' = calls + 1
    /\ args' = [dst |-> destination, src |-> source, clean |-> cleanDest]
    /\ fs0' = fs
    /\ log' = {}
    /\ prev' = IF calls = 0 THEN NoPrev
               ELSE [valid |-> TRUE, dst |-> args.dst, src |-> args.src, result |-> result,
                     allOk |-> \A e \in log : e.act # "failed",
                     touched |-> touched]
    /\ touched' = {}
    /\ UNCHANGED <<host, locked>>
    /\ IF GuardFires(destination, source)
       THEN \* In the same directory, block.
            /\ result' = "E_FAIL"
            /\ pc' = "idle"
            /\ stack' = <<>>
            /\ fs' = fs
       ELSE \/ /\ fs' = CleanStep(fs, destination, cleanDest)
               /\ result' = "none"
               /\ pc' = "enter"
               /\ stack' = <<Frame(ToPath(source), ToPath(destination))>>
            \/ \* exists or remove_all reports an error by throwing
               /\ cleanDest
               /\ Exists(fs, ToPath(destination))
               /\ fs' = fs
               /\ Throw

\* CopyDirTo from its entry to the creation of the directory iterator
CopyDirToEnter ==
    /\ pc = "enter"
    /\ \E iterOk \in BOOLEAN :
        LET target == Top.to
            source_folder == Top.from
            \* CreateDirectory is called when the target does not exist; its
            \* result is not looked at
            created == ~Exists(fs, target) /\ CanCreateDirectory(fs, target)
            fs1 == IF created THEN MkDir(fs, target, MaxTime) ELSE fs
        IN  \* directory_iterator throws when source_folder cannot be read
            /\ iterOk => IsDir(fs1, source_folder)
            /\ fs' = fs1
            /\ log' = IF ~created /\ ~Exists(fs, target)
                      THEN log \cup {Entry(source_folder, target, "nodir")}
                      ELSE log
            /\ IF iterOk
               THEN /\ pc' = "iter"
                    /\ stack' = SetTop(stack, [Top EXCEPT !.todo = Entries(fs1, source_folder)])
                    /\ result' = result
               ELSE Throw
    /\ UNCHANGED <<host, locked, args, calls, fs0, prev, touched>>

\* the entries the iterator of the innermost activation can still produce:
\* those it was created over, and possibly entries added since
Visible == Top.todo \cup (Entries(fs, Top.from) \ Top.done)

Advance(n) == SetTop(stack, [Top EXCEPT !.todo = @ \ {n}, !.done = @ \cup {n}])

\* a test that skips a file only when the destination is strictly newer
UpToDateStrict(originalFileTime, destFileTime) == originalFileTime < destFileTime

\* the test that skips a file: originalFileTime <= destFileTime
UpToDate(originalFileTime, destFileTime) == originalFileTime <= destFileTime

\* a failed CopyFile ends the call with an exception
AfterCopyFileThrowing(res, n) ==
    IF res
    THEN stack' = Advance(n) /\ UNCHANGED <<pc, result>>
    ELSE Throw

\* after CopyFile returned res, the result is logged and the loop goes on
AfterCopyFile(res, n) ==
    /\ stack' = Advance(n)
    /\ UNCHANGED <<pc, result>>

\* one iteration of the loop on a regular file
CopyDirToFile ==
    /\ pc = "iter"
    /\ \E n \in Visible :
        LET p == Join(Top.from, n)
            d == Join(Top.to, n)
        IN  /\ IsFile(fs, p)
            /\ \/ \* file write time is the same
                  /\ Exists(fs, d)
                  /\ UpToDate(fs[p].time, fs[d].time)
                  /\ fs' = fs
                  /\ log' = log \cup {Entry(p, d, "skip")}
                  /\ stack' = Advance(n)
                  /\ UNCHANGED <<pc, result>>
               \/ \* last_write_time reports an error by throwing
                  /\ Exists(fs, d)
                  /\ fs' = fs
                  /\ log' = log
                  /\ Throw
               \/ /\ Exists(fs, d) => ~UpToDate(fs[p].time, fs[d].time)
                  /\ LET res == CanCopyFile(fs, locked, p, d)
                     IN /\ fs' = IF res THEN CopyFileTo(fs, p, d) ELSE fs
                        /\ log' = log \cup {Entry(p, d, IF res THEN "copied" ELSE "failed")}
                        /\ AfterCopyFile(res, n)
    /\ UNCHANGED <<host, locked, args, calls, fs0, prev, touched>>

\* one iteration of the loop on a directory: the recursive call
CopyDirToSubdir ==
    /\ pc = "iter"
    /\ \E n \in Visible :
        LET p == Join(Top.from, n)
        IN  /\ IsDir(fs, p)
            /\ stack' = Append(Advance(n), Frame(p, Join(Top.to, Filename(p))))
            /\ pc' = "enter"
    /\ UNCHANGED <<host, locked, fs, args, result, calls, fs0, log, prev, touched>>

\* the loop of the innermost activation ends; the outermost one returns to
\* CopyToDirectory, which returns S_OK
CopyDirToReturn ==
    /\ pc = "iter"
    /\ Top.todo = {}
    /\ stack' = Pop(stack)
    /\ IF Len(stack) = 1
       THEN result' = "S_OK" /\ pc' = "idle"
       ELSE result' = result /\ pc' = "iter"
    /\ UNCHANGED <<host, locked, fs, args, calls, fs0, log, prev, touched>>

\* between two calls the application directory is serviced: a file of the
\* source tree gets a later last-write time
Touch(p) ==
    /\ pc = "idle"
    /\ 0 < calls
    /\ calls < MaxCalls
    /\ touched = {}
    /\ IsFile(fs, p)
    /\ IsPrefix(ToPath(host.src), p)
    /\ \E t \in (fs[p].time + 1)..MaxTime : fs' = [fs EXCEPT ![p].time = t]
    /\ touched' = touched \cup {p}
    /\ UNCHANGED <<host, locked, pc, stack, args, result, calls, fs0, log, prev>>

(* --------------------------- the four accessors ------------------------ *)
Accessors == {"GetEnvironmentVariableValue", "ExpandEnvironmentVariables",
              "GetCurrentDirectoryValue", "GetDllDirectoryValue"}

\* the values a variable can hold: strings of at most MaxLen characters
RECURSIVE StringsUpTo(_)
StringsUpTo(n) ==
    IF n = 0 THEN {<<>>}
    ELSE StringsUpTo(n - 1) \cup
         {Append(v, c) : v \in {w \in StringsUpTo(n - 1) : Len(w) = n - 1}, c \in {"x", "y"}}

EnvValues == StringsUpTo(MaxLen)

\* the variable is absent, or present with a value
Absent == [present |-> FALSE, value |-> <<>>]
Present(v) == [present |-> TRUE, value |-> v]
EnvStates == {Absent} \cup {Present(v) : v \in EnvValues}

ErrorCodes == {"ERROR_SUCCESS", "ERROR_ENVVAR_NOT_FOUND", "ERROR_NOT_ENOUGH_MEMORY"}

NUL == "0"

VARIABLES
    acc,            \* the accessor that is called
    zeroProbe,      \* the platform's GetDllDirectory answers a call without
                    \* buffer with 0 when no directory is set (the case
                    \* lines 107-116 handle), or with the size needed
    fills,          \* history: fill calls since the queried value last changed
    env,            \* the value the query is about: the variable, the
                    \* expansion of the string, the current directory, the
                    \* library search directory
    lastError,      \* the calling thread's last-error code
    epc,            \* "start": before the probe; "loop": before a fill call;
                    \* "done": the accessor has returned or thrown
    requestedSize,  \* the local requestedSize
    expandedStr,    \* the local expandedStr
    eresult,        \* what the accessor returned or threw
    lastCall,       \* history: the last call of GetEnvironmentVariableW
    changes         \* history: number of changes of the variable so far

envVars == <<acc, zeroProbe, fills, env, lastError, epc, requestedSize, expandedStr, eresult, lastCall, changes>>

NoResult == [kind |-> "none", value |-> <<>>, code |-> "", what |-> ""]
NullOpt == [kind |-> "nullopt", value |-> <<>>, code |-> "", what |-> ""]
Value(v) == [kind |-> "value", value |-> v, code |-> "", what |-> ""]
SystemError(code, what) == [kind |-> "error", value |-> <<>>, code |-> code, what |-> what]

NoCall == [fill |-> FALSE, present |-> FALSE, value |-> <<>>, failed |-> FALSE,
           size |-> 0, ret |-> 0, reported |-> 0, err |-> "", made |-> FALSE]

\* std::wstring::resize(n): cut, or extend with null characters
Resize(str, n) == [i \in 1..n |-> IF i <= Len(str) THEN str[i] ELSE NUL]

\* GetEnvironmentVariableW(name, buffer, size), as documented: what it
\* returns, the buffer and the last error afterwards.
\*  - fails: returns 0 and sets the last error to the failure's code;
\*  - the variable is absent: returns 0, last error ERROR_ENVVAR_NOT_FOUND;
\*  - the buffer holds the value and its terminator: stores them, returns the
\*    length without the terminator; the last error is not specified (left
\*    as it was, or reset);
\*  - the buffer is too small: returns the size needed, terminator
\*    included; the buffer's content is undefined.
GetEnvironmentVariableW(e, buffer, size, fails, resets) ==
    IF fails
    THEN [ret |-> 0, buffer |-> buffer, err |-> "ERROR_NOT_ENOUGH_MEMORY"]
    ELSE IF ~e.present
    THEN [ret |-> 0, buffer |-> buffer, err |-> "ERROR_ENVVAR_NOT_FOUND"]
    ELSE IF size > Len(e.value)
    THEN [ret |-> Len(e.value),
          buffer |-> [i \in 1..Len(buffer) |->
                        IF i <= Len(e.value) THEN e.value[i]
                        ELSE IF i = Len(e.value) + 1 THEN NUL
                        ELSE buffer[i]],
          err |-> IF resets THEN "ERROR_SUCCESS" ELSE lastError]
    ELSE [ret |-> Len(e.value) + 1,
          buffer |-> [i \in 1..Len(buffer) |-> "?"],
          err |-> lastError]

Call(fill, size, fails, r) ==
    [fill |-> fill, present |-> env.present, value |-> env.value, failed |-> fails,
     size |-> size, ret |-> r.ret, reported |-> requestedSize, err |-> r.err,
     made |-> TRUE]

\* the probe's zero result: not found is no value, anything else is thrown
OnZeroAtProbe(err) ==
    IF err = "ERROR_ENVVAR_NOT_FOUND" THEN NullOpt
    ELSE SystemError(err, "GetEnvironmentVariableW")

\* a fill call's zero result that is always thrown
OnZeroAtFillThrowing(err) == SystemError(err, "ExpandEnvironmentStringsW")

\* a fill call's zero result: not found is no value, anything else is thrown
OnZeroAtFill(err) ==
    IF err = "ERROR_ENVVAR_NOT_FOUND" THEN NullOpt
    ELSE SystemError(err, "ExpandEnvironmentStringsW")

\* GetEnvironmentVariableValue up to its loop: the probe call
GetEnvProbe ==
    /\ acc = "GetEnvironmentVariableValue"
    /\ epc = "start"
    /\ \E fails \in BOOLEAN, resets \in BOOLEAN :
        LET r == GetEnvironmentVariableW(env, <<>>, 0, fails, resets)
        IN  /\ lastError' = r.err
            /\ requestedSize' = r.ret
            /\ lastCall' = Call(FALSE, 0, fails, r)
            /\ expandedStr' = <<>>
            /\ IF r.ret = 0
               THEN eresult' = OnZeroAtProbe(r.err) /\ epc' = "done"
               ELSE IF r.ret = 1
               THEN \* String just contains a nullcharacter, return nothing
                    eresult' = NullOpt /\ epc' = "done"
               ELSE eresult' = eresult /\ epc' = "loop"
    /\ UNCHANGED <<acc, zeroProbe, fills, env, changes>>

\* one iteration of the loop: resize, the fill call, the tests; when the
\* loop ends, the final resize and the return
GetEnvFill ==
    /\ acc = "GetEnvironmentVariableValue"
    /\ epc = "loop"
    /\ fills < MaxFills
    /\ fills' = fills + 1
    /\ \E fails \in BOOLEAN, resets \in BOOLEAN :
        LET resized == Resize(expandedStr, requestedSize)
            r == GetEnvironmentVariableW(env, resized, requestedSize, fails, resets)
        IN  /\ lastError' = r.err
            /\ requestedSize' = r.ret
            /\ lastCall' = Call(TRUE, requestedSize, fails, r)
            /\ IF r.ret = 0
               THEN /\ eresult' = OnZeroAtFill(r.err)
                    /\ epc' = "done"
                    /\ expandedStr' = r.buffer
               ELSE IF Len(r.buffer) # r.ret + 1
               THEN /\ eresult' = eresult
                    /\ epc' = "loop"
                    /\ expandedStr' = r.buffer
               ELSE /\ eresult' = Value(Resize(r.buffer, r.ret))
                    /\ epc' = "done"
                    /\ expandedStr' = Resize(r.buffer, r.ret)
    /\ UNCHANGED <<acc, zeroProbe, env, changes>>

(* ------------- the three accessors without a missing-value case -------- *)
\* what a facility leaves in a buffer that holds the value: the value, its
\* terminator, and behind it what the buffer held before
Store(buffer, value) ==
    [i \in 1..Len(buffer) |->
        IF i <= Len(value) THEN value[i]
        ELSE IF i = Len(value) + 1 THEN NUL
        ELSE buffer[i]]

\* what a facility leaves in a buffer that is too small: undefined content
Garbage(buffer) == [i \in 1..Len(buffer) |-> "?"]

\* ExpandEnvironmentStringsW(str, buffer, size), as documented; e is the
\* expansion of str under the environment of the moment.  It returns the
\* number of characters of the expansion with the terminator, whether the
\* buffer held it or not, and 0 with a last error when it fails.
ExpandEnvironmentStringsW(e, buffer, size, fails, le) ==
    IF fails
    THEN [ret |-> 0, buffer |-> buffer, err |-> "ERROR_NOT_ENOUGH_MEMORY"]
    ELSE IF size > Len(e.value)
    THEN [ret |-> Len(e.value) + 1, buffer |-> Store(buffer, e.value), err |-> le]
    ELSE [ret |-> Len(e.value) + 1, buffer |-> Garbage(buffer), err |-> le]

\* GetCurrentDirectory(size, buffer), as documented: the length without the
\* terminator when the buffer held the directory, the size needed with the
\* terminator when it did not, 0 with a last error when it fails.
GetCurrentDirectory(e, buffer, size, fails, le) ==
    IF fails
    THEN [ret |-> 0, buffer |-> buffer, err |-> "ERROR_NOT_ENOUGH_MEMORY"]
    ELSE IF size > Len(e.value)
    THEN [ret |-> Len(e.value), buffer |-> Store(buffer, e.value), err |-> le]
    ELSE [ret |-> Len(e.value) + 1, buffer |-> Garbage(buffer), err |-> le]

\* GetDllDirectory(size, buffer): as GetCurrentDirectory, with two
\* differences the accessor's comments name: the directory can be empty, and
\* then a successful call returns 0; the last error is set only by a
\* failure.  Asked without room for the terminator while no directory is
\* set, the platform answers 0 (zero) or 1, the size needed.
GetDllDirectory(e, buffer, size, fails, le, zero) ==
    IF fails
    THEN [ret |-> 0, buffer |-> buffer, err |-> "ERROR_NOT_ENOUGH_MEMORY"]
    ELSE IF size > Len(e.value)
    THEN [ret |-> Len(e.value), buffer |-> Store(buffer, e.value), err |-> le]
    ELSE IF e.value = <<>> /\ zero
    THEN [ret |-> 0, buffer |-> buffer, err |-> le]
    ELSE [ret |-> Len(e.value) + 1, buffer |-> Garbage(buffer), err |-> le]

\* the final resize of ExpandEnvironmentVariables left out
TrimNullKept(str, size) == Resize(str, size)

\* trim null character as ExpandEnvironmentStringsW returns size including
\* null character
TrimNull(str, size) == Resize(str, size - 1)

\* ExpandEnvironmentVariables up to its loop: the probe call
ExpandProbe ==
    /\ acc = "ExpandEnvironmentVariables"
    /\ epc = "start"
    /\ \E fails \in BOOLEAN :
        LET r == ExpandEnvironmentStringsW(env, <<>>, 0, fails, lastError)
        IN  /\ lastError' = r.err
            /\ requestedSize' = r.ret
            /\ lastCall' = Call(FALSE, 0, fails, r)
            /\ expandedStr' = <<>>
            /\ IF r.ret = 0
               THEN /\ eresult' = SystemError(r.err, "ExpandEnvironmentVariables")
                    /\ epc' = "done"
               ELSE eresult' = eresult /\ epc' = "loop"
    /\ UNCHANGED <<acc, zeroProbe, fills, env, changes>>

\* one iteration of its loop, and the trim and the return when it ends
ExpandFill ==
    /\ acc = "ExpandEnvironmentVariables"
    /\ epc = "loop"
    /\ fills < MaxFills
    /\ fills' = fills + 1
    /\ \E fails \in BOOLEAN :
        LET resized == Resize(expandedStr, requestedSize)
            r == ExpandEnvironmentStringsW(env, resized, requestedSize, fails, lastError)
        IN  /\ lastError' = r.err
            /\ requestedSize' = r.ret
            /\ lastCall' = Call(TRUE, requestedSize, fails, r)
            /\ IF r.ret = 0
               THEN /\ eresult' = SystemError(r.err, "ExpandEnvironmentVariables")
                    /\ epc' = "done"
                    /\ expandedStr' = r.buffer
               ELSE IF Len(r.buffer) # r.ret
               THEN /\ eresult' = eresult
                    /\ epc' = "loop"
                    /\ expandedStr' = r.buffer
               ELSE /\ eresult' = Value(TrimNull(r.buffer, r.ret))
                    /\ epc' = "done"
                    /\ expandedStr' = TrimNull(r.buffer, r.ret)
    /\ UNCHANGED <<acc, zeroProbe, env, changes>>

\* GetCurrentDirectoryValue up to its loop: the probe call
CurrentDirectoryProbe ==
    /\ acc = "GetCurrentDirectoryValue"
    /\ epc = "start"
    /\ \E fails \in BOOLEAN :
        LET r == GetCurrentDirectory(env, <<>>, 0, fails, lastError)
        IN  /\ lastError' = r.err
            /\ requestedSize' = r.ret
            /\ lastCall' = Call(FALSE, 0, fails, r)
            /\ expandedStr' = <<>>
            /\ IF r.ret = 0
               THEN /\ eresult' = SystemError(r.err, "GetCurrentDirectory")
                    /\ epc' = "done"
               ELSE eresult' = eresult /\ epc' = "loop"
    /\ UNCHANGED <<acc, zeroProbe, fills, env, changes>>

\* one iteration of its loop, and the final resize and the return
CurrentDirectoryFill ==
    /\ acc = "GetCurrentDirectoryValue"
    /\ epc = "loop"
    /\ fills < MaxFills
    /\ fills' = fills + 1
    /\ \E fails \in BOOLEAN :
        LET resized == Resize(expandedStr, requestedSize)
            r == GetCurrentDirectory(env, resized, requestedSize, fails, lastError)
        IN  /\ lastError' = r.err
            /\ requestedSize' = r.ret
            /\ lastCall' = Call(TRUE, requestedSize, fails, r)
            /\ IF r.ret = 0
               THEN /\ eresult' = SystemError(r.err, "GetCurrentDirectory")
                    /\ epc' = "done"
                    /\ expandedStr' = r.buffer
               ELSE IF Len(r.buffer) # r.ret + 1
               THEN /\ eresult' = eresult
                    /\ epc' = "loop"
                    /\ expandedStr' = r.buffer
               ELSE /\ eresult' = Value(Resize(r.buffer, r.ret))
                    /\ epc' = "done"
                    /\ expandedStr' = Resize(r.buffer, r.ret)
    /\ UNCHANGED <<acc, zeroProbe, env, changes>>

\* a zero result of GetDllDirectory is a failure when the last error, set to
\* ERROR_SUCCESS before the probe, is no longer ERROR_SUCCESS
DllZeroIsFailure(err) == err # "ERROR_SUCCESS"

\* GetDllDirectoryValue up to its loop: SetLastError and the probe call
DllDirectoryProbe ==
    /\ acc = "GetDllDirectoryValue"
    /\ epc = "start"
    /\ \E fails \in BOOLEAN :
        LET r == GetDllDirectory(env, <<>>, 0, fails, "ERROR_SUCCESS", zeroProbe)
        IN  /\ lastError' = r.err
            /\ requestedSize' = r.ret
            /\ lastCall' = Call(FALSE, 0, fails, r)
            /\ expandedStr' = <<>>
            /\ IF r.ret = 0
               THEN /\ eresult' = IF DllZeroIsFailure(r.err)
                                  THEN SystemError(r.err, "GetDllDirectory")
                                  ELSE Value(<<>>)
                    /\ epc' = "done"
               ELSE eresult' = eresult /\ epc' = "loop"
    /\ UNCHANGED <<acc, zeroProbe, fills, env, changes>>

\* one iteration of its loop, and the final resize and the return
DllDirectoryFill ==
    /\ acc = "GetDllDirectoryValue"
    /\ epc = "loop"
    /\ fills < MaxFills
    /\ fills' = fills + 1
    /\ \E fails \in BOOLEAN :
        LET resized == Resize(expandedStr, requestedSize)
            r == GetDllDirectory(env, resized, requestedSize, fails, lastError, zeroProbe)
        IN  /\ lastError' = r.err
            /\ requestedSize' = r.ret
            /\ lastCall' = Call(TRUE, requestedSize, fails, r)
            /\ IF r.ret = 0 /\ DllZeroIsFailure(r.err)
               THEN /\ eresult' = SystemError(r.err, "GetDllDirectory")
                    /\ epc' = "done"
                    /\ expandedStr' = r.buffer
               ELSE IF Len(r.buffer) # r.ret + 1
               THEN /\ eresult' = eresult
                    /\ epc' = "loop"
                    /\ expandedStr' = r.buffer
               ELSE /\ eresult' = Value(Resize(r.buffer, r.ret))
                    /\ epc' = "done"
                    /\ expandedStr' = Resize(r.buffer, r.ret)
    /\ UNCHANGED <<acc, zeroProbe, env, changes>>

\* the values the facility of accessor a can hold: only a variable can be
\* absent, and the current directory is never empty
StatesOf(a) ==
    IF a = "GetEnvironmentVariableValue" THEN EnvStates
    ELSE IF a = "GetCurrentDirectoryValue"
    THEN {Present(v) : v \in EnvValues \ {<<>>}}
    ELSE {Present(v) : v \in EnvValues}

\* another thread or process sets or removes the variable (changes the
\* directory) while the query is between two calls of the facility
EnvChange ==
    /\ epc = "loop"
    /\ changes < MaxChanges
    /\ \E e \in StatesOf(acc) \ {env} : env' = e
    /\ changes' = changes + 1
    /\ fills' = 0
    /\ UNCHANGED <<acc, zeroProbe, lastError, epc, requestedSize, expandedStr, eresult,
                   lastCall>>

EnvInit ==
    /\ acc \in Accessors
    /\ zeroProbe \in BOOLEAN
    /\ acc # "GetDllDirectoryValue" => ~zeroProbe
    /\ fills = 0
    /\ env \in StatesOf(acc)
    /\ lastError \in ErrorCodes
    /\ epc = "start"
    /\ requestedSize = 0
    /\ expandedStr = <<>>
    /\ eresult = NoResult
    /\ lastCall = NoCall
    /\ changes = 0

\* no query is made
EnvIdle ==
    /\ acc = "GetEnvironmentVariableValue"
    /\ zeroProbe = FALSE
    /\ fills = 0
    /\ env = Absent
    /\ lastError = "ERROR_SUCCESS"
    /\ epc = "done"
    /\ requestedSize = 0
    /\ expandedStr = <<>>
    /\ eresult = NoResult
    /\ lastCall = NoCall
    /\ changes = 0

\* no shadow copy is made
SyncIdle ==
    /\ host = [src |-> strA, dst |-> strC]
    /\ fs = BaseTree
    /\ locked = {}
    /\ pc = "idle"
    /\ stack = <<>>
    /\ args = NoArgs
    /\ result = "none"
    /\ calls = MaxCalls
    /\ fs0 = fs
    /\ log = {}
    /\ prev = NoPrev
    /\ touched = {}

vars == <<syncVars, envVars>>

\* the shadow copy
Init == SyncInit /\ EnvIdle
Next ==
    \/ (\E cleanDest \in BOOLEAN : CopyToDirectory(host.dst, host.src, cleanDest))
          /\ UNCHANGED envVars
    \/ CopyDirToEnter /\ UNCHANGED envVars
    \/ CopyDirToFile /\ UNCHANGED envVars
    \/ CopyDirToSubdir /\ UNCHANGED envVars
    \/ CopyDirToReturn /\ UNCHANGED envVars
    \/ (\E p \in DOMAIN fs : Touch(p)) /\ UNCHANGED envVars
Spec == Init /\ [][Next]_vars

\* the query of an environment variable
EnvNext ==
    \/ GetEnvProbe /\ UNCHANGED syncVars
    \/ GetEnvFill /\ UNCHANGED syncVars
    \/ ExpandProbe /\ UNCHANGED syncVars
    \/ ExpandFill /\ UNCHANGED syncVars
    \/ CurrentDirectoryProbe /\ UNCHANGED syncVars
    \/ CurrentDirectoryFill /\ UNCHANGED syncVars
    \/ DllDirectoryProbe /\ UNCHANGED syncVars
    \/ DllDirectoryFill /\ UNCHANGED syncVars
    \/ EnvChange /\ UNCHANGED syncVars
EnvSpecInit == EnvInit /\ SyncIdle
EnvSpec == EnvSpecInit /\ [][EnvNext]_vars

(* --------------------- properties of the synchronizer ------------------ *)
\* the string dst begins with the string src
StartsWith(dst, src) == Len(src) <= Len(dst) /\ SubSeq(dst, 1, Len(src)) = src

SrcRoot == ToPath(host.src)
DstRoot == ToPath(host.dst)

\* the destination counterpart of a path under the source, and conversely
Mirror(p) == DstRoot \o SubSeq(p, Len(SrcRoot) + 1, Len(p))
Counterpart(q) == SrcRoot \o SubSeq(q, Len(DstRoot) + 1, Len(q))

\* the part of file system f at or below p
Tree(f, p) == [q \in Under(f, p) |-> f[q]]

Files(f, p) == {q \in Under(f, p) : f[q].kind = "file"}
Dirs(f, p) == {q \in Under(f, p) : f[q].kind = "dir"}

\* the copies the current call attempted, and those that succeeded
Attempted == {e \in log : e.act \in {"copied", "failed"}}
Copied == {e \in log : e.act = "copied"}
Visited == {e \in log : e.act \in {"skip", "copied", "failed"}}

\* a call has returned and nothing has happened since
Returned(r) == pc = "idle" /\ calls > 0 /\ result = r /\ touched = {}

\* C1: when the destination string equals the source string or begins with
\* it, the call returns E_FAIL at once and the file system is left as it was
C1_GuardRefusesWithoutMutation ==
    [][(calls' = calls + 1 /\ StartsWith(args'.dst, args'.src))
        => (result' = "E_FAIL" /\ pc' = "idle" /\ stack' = <<>> /\ fs' = fs)]_syncVars

C1_Witness ==
    /\ Returned("E_FAIL")
    /\ args.clean
    /\ args.dst # args.src
    /\ StartsWith(args.dst, args.src)
    /\ args.src # <<>>
    /\ Exists(fs, ToPath(args.dst))
    /\ fs = fs0

\* C2: no step of a call deletes, creates or overwrites anything at or
\* below the source path
C2_SourceTreeReadOnly ==
    (calls > 0 /\ touched = {}) => Tree(fs, SrcRoot) = Tree(fs0, SrcRoot)

\* C4 as stated: with an existing destination counterpart, the file is
\* skipped exactly when the destination's time is <= the source's time
C4_SkipWhenDestNotNewer ==
    \A e \in Visited : e.dExists => ((e.dstT <= e.srcT) <=> (e.act = "skip"))

\* C4 amended: with an existing destination counterpart, the file is skipped
\* exactly when the source's time is <= the destination's time, and a copy
\* over the counterpart is attempted in every other case
C4_SkipWhenSourceNotNewer ==
    \A e \in Visited : e.dExists => ((e.srcT <= e.dstT) <=> (e.act = "skip"))

C4_Witness ==
    /\ \E e \in Visited : e.dExists /\ e.srcT = e.dstT /\ e.act = "skip"
    /\ \E e \in Visited : e.dExists /\ e.srcT < e.dstT /\ e.act = "skip"
    /\ \E e \in Visited : e.dExists /\ e.srcT > e.dstT /\ e.act = "copied"

\* the previous call returned S_OK with every file copy successful, and the
\* current call is a re-run without cleaning
ReRunAfterSync ==
    /\ Returned("S_OK")
    /\ prev.valid
    /\ prev.result = "S_OK"
    /\ prev.allOk
    /\ ~args.clean

\* C3: a visited source file is copied if and only if its destination
\* counterpart does not exist or the source's last-write time is strictly
\* newer; and a re-run after exactly one source file was made newer than its
\* destination copy copies that file and no other
C3_CopyIffNewOrNewer ==
    /\ \A e \in Visited : (e.act # "skip") <=> (~e.dExists \/ e.srcT > e.dstT)
    /\ \A p \in Files(fs0, SrcRoot) :
        (/\ ReRunAfterSync
         /\ prev.touched = {p}
         /\ IsFile(fs0, Mirror(p))
         /\ fs0[p].time > fs0[Mirror(p)].time)
        => {e.p : e \in Attempted} = {p}

\* C5: a re-run with cleanDest false after a run whose copies all succeeded,
\* the source tree not modified in between, attempts no copy and leaves the
\* file system as it was
C5_ReRunIsNoOp ==
    (ReRunAfterSync /\ prev.touched = {}) => (Attempted = {} /\ fs = fs0)

\* C6: the destination being absent or empty when the call starts and no
\* file copy failing, after S_OK every source file is at its destination
\* counterpart with the same content and every source subdirectory exists
\* under the destination
C6_MirrorComplete ==
    (/\ Returned("S_OK")
     /\ Under(fs0, DstRoot) \subseteq {DstRoot}
     /\ \A e \in log : e.act # "failed")
    => /\ \A p \in Files(fs0, SrcRoot) :
            IsFile(fs, Mirror(p)) /\ fs[Mirror(p)].content = fs0[p].content
       /\ \A p \in Dirs(fs0, SrcRoot) : IsDir(fs, Mirror(p))

\* C7: a failing CopyFile does not end the walk: the loop goes on with the
\* next entry, and a call that returns S_OK has visited every file the
\* source tree held during the walk, whatever copies failed
C7_CopyFailureContained ==
    [][/\ (\E e \in log' \ log : e.act = "failed")
            => (pc' = "iter" /\ result' = "none" /\ Len(stack') = Len(stack))
       /\ (pc = "iter" /\ result' = "S_OK")
            => (Files(fs0, SrcRoot) \cap DOMAIN fs) \subseteq {e.p : e \in Visited}]_syncVars

C7_Witness ==
    /\ Returned("S_OK")
    /\ ~IsPrefix(SrcRoot, DstRoot)
    /\ ~IsPrefix(DstRoot, SrcRoot)
    /\ \E e1 \in log, e2 \in log :
        /\ e1.act = "failed"
        /\ e2.act = "copied"
        /\ Parent(e1.p) = Parent(e2.p)
    /\ \E e1 \in log, e2 \in log :
        /\ e1.act = "failed"
        /\ e2.act = "copied"
        /\ Parent(e1.p) # Parent(e2.p)

\* C8: after a call with cleanDest true on an existing destination returned
\* S_OK, the files under the destination are exactly the files this call
\* copied, and every directory under it has its counterpart in the source
C8_CleanLeavesOnlyCopies ==
    (Returned("S_OK") /\ args.clean /\ Exists(fs0, DstRoot))
    => /\ Files(fs, DstRoot) = {e.d : e \in Copied}
       /\ \A q \in Dirs(fs, DstRoot) : IsDir(fs, Counterpart(q))

C8_Witness ==
    /\ Returned("S_OK")
    /\ args.clean
    /\ ~IsPrefix(SrcRoot, DstRoot)
    /\ ~IsPrefix(DstRoot, SrcRoot)
    /\ \E q \in Files(fs0, DstRoot) : ~Exists(fs0, Counterpart(q)) /\ ~Exists(fs, q)
    /\ Copied # {}

\* C9: with cleanDest false, whatever exists under the destination when the
\* call starts and has no counterpart under the source is still there, with
\* the same content and time, during and after the call
C9_StrayEntriesUntouched ==
    (calls > 0 /\ touched = {} /\ ~args.clean /\ result # "E_FAIL")
    => \A q \in Under(fs0, DstRoot) :
            ~Exists(fs0, Counterpart(q)) => (q \in DOMAIN fs /\ fs[q] = fs0[q])

(* ------------------------ properties of the query ---------------------- *)
\* C10: when the variable is absent at the accessor's last call of the
\* facility and that call did not fail, the accessor returns no value: not
\* an empty string, not an error
C10_AbsentGivesNullopt ==
    (epc = "done" /\ eresult.kind # "none" /\ ~lastCall.present /\ ~lastCall.failed)
    => eresult = NullOpt

C10_Witness ==
    /\ epc = "done"
    /\ lastCall.fill
    /\ ~lastCall.present
    /\ ~lastCall.failed
    /\ changes > 0
    /\ eresult = NullOpt

(* ------------------------ properties of the accessors ------------------ *)
\* the accessor has returned or thrown
Done == epc = "done"

\* the facility call each accessor makes (lines 12, 37, 78, 106)
FacilityOf(a) ==
    IF a = "GetEnvironmentVariableValue" THEN "GetEnvironmentVariableW"
    ELSE IF a = "ExpandEnvironmentVariables" THEN "ExpandEnvironmentStringsW"
    ELSE IF a = "GetCurrentDirectoryValue" THEN "GetCurrentDirectory"
    ELSE "GetDllDirectory"

\* C11: GetEnvironmentVariableValue returns no value for a variable whose
\* value is the empty string at its last call of the facility, the probe
\* or a fill call, when that call did not fail.
C11_EmptyGivesNullopt ==
    (/\ acc = "GetEnvironmentVariableValue"
     /\ Done
     /\ lastCall.present /\ lastCall.value = <<>> /\ ~lastCall.failed)
        => eresult = NullOpt

\* C12: for each accessor every fill call is made with the size the
\* facility reported last, and once the value has stopped changing the
\* loop ends within three fill calls (one that finds the buffer too
\* large, one that finds it too small, one that fits) when no call fails.
C12_LoopEndsOnceValueIsStable ==
    /\ lastCall.fill => lastCall.size = lastCall.reported
    /\ fills <= 3

\* C13: the string an accessor returns is the value the facility held at
\* the accessor's last call: no terminator, no character of an older value.
C13_ReturnsValueAtLastFill ==
    (Done /\ eresult.kind = "value") => eresult.value = lastCall.value

C13_Witness ==
    /\ Done /\ eresult.kind = "value"
    /\ acc = "ExpandEnvironmentVariables"
    /\ changes = MaxChanges /\ fills > 1
    /\ Len(eresult.value) > 0

\* C14: GetDllDirectoryValue treats a zero size without an error as the
\* empty directory: it throws only when the facility failed, it returns
\* the empty string when it returns on such a report, and while the
\* directory stays empty it returns within three fill calls.
C14_ZeroWithoutErrorIsEmpty ==
    acc = "GetDllDirectoryValue" =>
        /\ (Done /\ eresult.kind = "error") => lastCall.failed
        /\ (Done /\ lastCall.made /\ lastCall.ret = 0 /\ ~lastCall.failed)
                => eresult = Value(<<>>)
        /\ env.value = <<>> => fills <= 3

\* C15: when a call of the facility fails with an error other than not
\* found, the accessor throws a system error with the code of that call
\* and the name of the facility the accessor called.
C15_ErrorNamesFailedCall ==
    (Done /\ lastCall.failed) =>
        eresult = SystemError(lastCall.err, FacilityOf(acc))

(* ------------------ further properties of the synchronizer ------------- *)
\* C16: CopyToDirectory does not return S_OK after a call to the file
\* system other than a file copy has failed; the failures that throw end
\* the call in Throw, the one that does not is a failed CreateDirectory.
C16_FailuresPropagate ==
    Returned("S_OK") => \A e \in log : e.act # "nodir"

\* C17: a call is refused with E_FAIL exactly when the source string is a
\* character-for-character prefix of the destination string.
C17_GuardIsLiteralPrefix ==
    [][calls' = calls + 1
        => (result' = "E_FAIL" <=> StartsWith(args'.dst, args'.src))]_syncVars

\* the sibling "/ab" of the source "/a" is refused
C17_Witness ==
    /\ Returned("E_FAIL")
    /\ args.src = strA /\ args.dst = strAb
    /\ IsPrefix(ToPath(args.src), ToPath(args.dst)) = FALSE

\* the number of directory levels of the tree at p
Height(f, p) ==
    IF Dirs(f, p) = {} THEN 0
    ELSE LET d == CHOOSE d \in Dirs(f, p) : \A q \in Dirs(f, p) : Len(q) <= Len(d)
         IN  Len(d) - Len(p) + 1

====
